---- MODULE Spec2Model ----
(***************************************************************************)
(* Session engine of vox-nexus: the session controller of App.jsx          *)
(* (AppContent / SessionPage), the CloudRelay hook useLiveKit, the         *)
(* DirectSocket hook useDirectStream and the preflight modal.              *)
(*                                                                         *)
(* JavaScript runs the handlers on one thread: a handler runs up to its    *)
(* next await (or to its end) without interleaving, so every action below  *)
(* is one such run.  A handler that awaits is kept in `calls` with the     *)
(* values its closure captured when it was invoked (React closures see the *)
(* state of the render in which they were created) and the place where it  *)
(* waits.  A state setter of an unmounted component does nothing.          *)
(***************************************************************************)
EXTENDS Integers, FiniteSets, Sequences, TLC

\* ------------------------------------------------------------------ bounds
MaxRooms == 1       \* LiveKit Room objects alive or still referenced at one time
MaxSockets == 1     \* WebSocket objects alive or still referenced at one time
MaxStreams == 1     \* MediaStreams with a live track at one time
MaxCalls == 1       \* handlers suspended at an await at the same time
MaxLostTimers == 3  \* pending retry timers that reconnectTimeoutRef no longer holds
MaxCycles == 2      \* capture cycles of one useDirectStream that are counted

\* ------------------------------------------------------- program constants
maxReconnectAttempts == 5
BaseDelay == 1000
MaxDelay == 30000

NoRoom == 0
NoSocket == 0
NoStream == 0

Modes == {"agent", "direct"}

VARIABLES
    path,               \* location.pathname: "/" or "/session"
    mode,               \* AppContent.mode
    isSystemCheckOpen,  \* AppContent.isSystemCheckOpen
    isSystemChecked,    \* AppContent.isSystemChecked (the preflight gate)
    storage,            \* sessionStorage 'voxora_system_checked' = 'true'
    hookVersion,        \* which of the two useLiveKit definitions is built
    isConnecting,       \* SessionPage.isConnecting
    currentLanguage,    \* SessionPage.currentLanguage
    wire,               \* the language channel: agent presence, the sync effect's
                        \* last dependencies, the set_language messages sent
    agent,              \* state and refs of the mounted useLiveKit
    direct,             \* state and refs of the mounted useDirectStream, and
                        \* its audio frames: produced, being read, sent
    rooms,              \* every Room object: connection state, mic track
    sockets,            \* every WebSocket object: readyState
    streams,            \* every MediaStream of useDirectStream
    looseTracks,        \* some local audio track was created and never published or stopped
    calls,              \* handlers suspended at an await
    last,               \* history: how the latest request returned / ended
    preflightSince,     \* history: preflight completed since selection/load
    modal               \* SystemCheckModal: checks, isRunning, runChecks in flight

vars == <<path, mode, isSystemCheckOpen, isSystemChecked, storage, hookVersion,
          isConnecting, currentLanguage, wire, agent, direct, rooms, sockets, streams,
          looseTracks, calls, last, preflightSince, modal>>

appVars == <<path, mode, isSystemCheckOpen, isSystemChecked, storage, currentLanguage, wire>>

\* ------------------------------------------------------------ initial values
AgentInit ==
    [roomRef |-> NoRoom, room |-> NoRoom, isConnected |-> FALSE,
     connectionState |-> "disconnected", micEnabled |-> TRUE, agentConnected |-> FALSE,
     reconnectAttempts |-> 0, reconnectTimeout |-> FALSE, lostTimers |-> 0,
     delays |-> <<>>, transcripts |-> <<>>]

DirectInit ==
    [wsRef |-> NoSocket, isConnected |-> FALSE, isRecording |-> FALSE,
     mediaRecorderRef |-> FALSE, streamRef |-> NoStream, transcripts |-> <<>>,
     cycles |-> 0, produced |-> 0, reading |-> {}, sent |-> <<>>,
     closePending |-> FALSE]

\* The language channel when SessionPage has just mounted: its sync effect
\* ran with currentLanguage 'en' and isConnected false and sent nothing.
\* present: an agent participant is in the LiveKit room (a fact of the relay).
WireInit == [present |-> FALSE, synced |-> [lang |-> "en", conn |-> FALSE], sent |-> <<>>]

\* SessionPage mounts anew; the relay's participants are not the page's.
Remount(w) == [WireInit EXCEPT !.present = w.present]

FreeRoom == [st |-> "free", mic |-> FALSE, g |-> FALSE]
FreeSocket == [st |-> "free", g |-> FALSE]

NoReq == [ret |-> "none", reached |-> FALSE, ended |-> FALSE, smart |-> FALSE,
          m |-> "agent", capErr |-> FALSE, live |-> FALSE, liveAtClose |-> FALSE, msg |-> ""]

CheckKeys == {"backend", "livekit", "mic", "internet"}

MaxRuns == 2        \* runChecks invocations in flight at the same time

IdleChecks == [k \in CheckKeys |-> "idle"]
NoRun == [pc |-> "none", backendHealthy |-> FALSE]

ModalInit == [checks |-> IdleChecks, isRunning |-> FALSE, runs |-> [i \in 1..MaxRuns |-> NoRun]]

Init ==
    /\ path = "/"
    /\ mode = "agent"
    /\ isSystemCheckOpen = FALSE
    /\ isSystemChecked = FALSE
    /\ storage = FALSE
    /\ hookVersion \in {1, 2}
    /\ currentLanguage = "en"
    /\ wire = WireInit
    /\ isConnecting = FALSE
    /\ agent = AgentInit
    /\ direct = DirectInit
    /\ rooms = [r \in 1..MaxRooms |-> FreeRoom]
    /\ sockets = [s \in 1..MaxSockets |-> FreeSocket]
    /\ streams = [s \in 1..MaxStreams |-> "free"]
    /\ looseTracks = FALSE
    /\ calls = {}
    /\ last = NoReq
    /\ preflightSince = FALSE
    /\ modal = ModalInit


\* ------------------------------------------------------------------ helpers
\* g says that the mounted SessionPage created the closure or object; the
\* component that created it is then still mounted.
Live(g) == path = "/session" /\ g

ActiveRoom(r) == rooms[r].st \in {"connecting", "connected"}
ActiveSocket(s) == sockets[s].st \in {"connecting", "open"}

UsedStreams == {s \in 1..MaxStreams : streams[s] # "free"}
NewStream == CHOOSE s \in 1..MaxStreams : s \notin UsedStreams /\ \A q \in 1..MaxStreams : q < s => q \in UsedStreams

StreamBudget == Cardinality(UsedStreams) + Cardinality({c \in calls : c.pc = "gum"}) < MaxStreams
CallBudget == Cardinality(calls) < MaxCalls

\* Suspended handlers carry a number that tells two of them apart.
\* The numbers carry no meaning: of the sets of handlers that differ only
\* in how they are numbered, one stands for all (numbers 1..n of n handlers).
Renumbered(cs) ==
    {{[c EXCEPT !.id = p[c.id]] : c \in cs} :
        p \in {q \in [1..MaxCalls -> 1..MaxCalls] :
                  {q[c.id] : c \in cs} = 1..Cardinality(cs)}}

Norm(cs) == CHOOSE x \in Renumbered(cs) : TRUE

\* Room.disconnect(): closes the room and stops its local tracks.
RoomDisconnect(rs, r) ==
    IF r # NoRoom /\ rs[r].st \in {"connecting", "connected"}
    THEN [rs EXCEPT ![r] = [st |-> "closed", mic |-> FALSE, g |-> FALSE]]
    ELSE rs

\* WebSocket.close()
SocketClose(ss, s) ==
    IF s # NoSocket /\ ss[s].st \in {"connecting", "open"}
    THEN [ss EXCEPT ![s] = [st |-> "closed", g |-> FALSE]]
    ELSE ss

\* disconnect() reaches roomRef.current.disconnect() on a room that is open
\* and still publishes the microphone track: nothing before that call stops
\* the capture.
MicLiveAtRoomClose(rs, r) ==
    r # NoRoom /\ rs[r].st \in {"connecting", "connected"} /\ rs[r].mic

\* disconnect() reaches wsRef.current.close() on an open socket while a
\* microphone track is live; ms: the streams as stopRecording() left them.
TracksLiveAtSocketClose(ms, ss, s) ==
    /\ s # NoSocket /\ ss[s].st \in {"connecting", "open"}
    /\ \E i \in DOMAIN ms : ms[i] = "live"

\* A stop that leaves the tracks running (what C13 excludes).
KeepTracks(ms, ref) == ms

\* streamRef.current.getTracks().forEach(track => track.stop())
\* (a stream whose tracks are stopped is of no further use: its slot is free)
StopTracks(ms, ref) == IF ref = NoStream THEN ms ELSE [ms EXCEPT ![ref] = "free"]

\* The Room / WebSocket objects something still refers to: the hook's refs
\* and state, and the closures of suspended handlers.
RoomRefs(a, cs) ==
    {a.roomRef, a.room} \cup {c.obj : c \in {d \in cs : d.m = "agent"}}
                        \cup {c.capRoom : c \in cs}
SocketRefs(d, cs) == {d.wsRef} \cup {c.obj : c \in {e \in cs : e.m = "direct"}}

\* A closed or failed object nothing refers to is garbage: its slot is free.
GcRooms(rs, a, cs) ==
    [r \in 1..MaxRooms |->
        IF rs[r].st \in {"closed", "failed"} /\ r \notin RoomRefs(a, cs)
        THEN FreeRoom ELSE rs[r]]
GcSockets(ss, d, cs) ==
    [s \in 1..MaxSockets |->
        IF ss[s].st = "closed" /\ s \notin SocketRefs(d, cs) THEN FreeSocket ELSE ss[s]]

\* The objects after a step that left them as rs and ss.
Collect(rs, ss) ==
    /\ rooms' = GcRooms(rs, agent', calls')
    /\ sockets' = GcSockets(ss, direct', calls')

\* The rooms as connect(token, url) leaves them just before "new Room(...)":
\* the first definition disconnects the Room roomRef holds, and in both the
\* Room roomRef holds is about to be let go.  A closure of an unmounted
\* SessionPage has a roomRef of its own that holds nothing.
RoomsAtConnect(live) ==
    IF live
    THEN GcRooms(IF hookVersion = 1 THEN RoomDisconnect(rooms, agent.roomRef) ELSE rooms,
                 [agent EXCEPT !.roomRef = NoRoom], calls)
    ELSE rooms

\* The sockets as direct.connect() finds them: wsRef is about to be overwritten.
SocketsAtConnect == GcSockets(sockets, [direct EXCEPT !.wsRef = NoSocket], calls)

FreeRooms(rs) == {r \in 1..MaxRooms : rs[r].st = "free"}
FreeSockets(ss) == {s \in 1..MaxSockets : ss[s].st = "free"}

\* new Room(...) / new WebSocket(url): the smallest free slot.
NewRoom(rs) == CHOOSE r \in FreeRooms(rs) : \A q \in FreeRooms(rs) : r <= q
NewSocket == CHOOSE s \in FreeSockets(SocketsAtConnect) : \A q \in FreeSockets(SocketsAtConnect) : s <= q

\* Budgets: an object is reserved when the request that will construct it starts.
RoomBudget ==
    Cardinality({c \in calls : c.pc = "fetch"}) < Cardinality(FreeRooms(RoomsAtConnect(TRUE)))
SocketBudget == FreeSockets(SocketsAtConnect) # {}

\* useLiveKit.disconnect, the hook state it leaves (first definition).
AgentDisconnectedV1(a) ==
    [a EXCEPT !.reconnectTimeout = FALSE, !.roomRef = NoRoom, !.room = NoRoom,
              !.isConnected = FALSE, !.connectionState = "disconnected"]

\* useLiveKit.disconnect, second definition: state is touched only when a
\* room is referenced; the room's Disconnected event sets connectionState.
AgentDisconnectedV2(a) ==
    IF a.roomRef = NoRoom THEN [a EXCEPT !.reconnectTimeout = FALSE]
    ELSE [a EXCEPT !.reconnectTimeout = FALSE, !.roomRef = NoRoom, !.room = NoRoom,
                   !.isConnected = FALSE, !.reconnectAttempts = 0, !.delays = <<>>,
                   !.connectionState = "disconnected"]

AgentDisconnected(a) ==
    IF hookVersion = 1 THEN AgentDisconnectedV1(a) ELSE AgentDisconnectedV2(a)

\* useDirectStream.stopRecording, the hook state it leaves.
StopRecording(d) ==
    [d EXCEPT !.isRecording = FALSE, !.mediaRecorderRef = FALSE, !.streamRef = NoStream]

\* useDirectStream.disconnect, the hook state it leaves.
\* closePending: close() was called on a socket that was connecting or open,
\* and the close event of that socket, whose handlers stay attached, has not
\* been delivered yet.
DirectDisconnected(d) ==
    [StopRecording(d) EXCEPT !.wsRef = NoSocket, !.isConnected = FALSE,
                             !.closePending = @ \/ (d.wsRef # NoSocket /\ ActiveSocket(d.wsRef))]

\* A close handler that forgets setIsConnected(false) (what C16 excludes).
OnCloseKeepsConnected(d) == StopRecording(d)

\* ws.onclose: setIsConnected(false); stopRecording().
OnClose(d) == [StopRecording(d) EXCEPT !.isConnected = FALSE]

\* SessionPage effect "auto-trigger system check if not done": it runs after
\* every AppContent render (startCheck is a new closure each time).
EffectOpen(p, checked, open) == IF p = "/session" /\ ~checked THEN TRUE ELSE open

\* ------------------------------------------------- AppContent / navigation
\* handleEnterMode(selectedMode), from the landing page; mounts SessionPage.
HandleEnterMode(sel) ==
    /\ path = "/"
    /\ mode' = sel
    /\ isSystemChecked' = FALSE
    /\ isSystemCheckOpen' = TRUE
    /\ path' = "/session"
    /\ isConnecting' = FALSE
    /\ agent' = AgentInit
    /\ direct' = DirectInit
    /\ last' = NoReq
    /\ preflightSince' = FALSE
    /\ UNCHANGED modal
    /\ currentLanguage' = "en"
    /\ wire' = Remount(wire)
    /\ UNCHANGED <<storage, hookVersion, streams, looseTracks, calls>>
    /\ Collect(rooms, sockets)

\* onSystemCheckComplete: the modal's button when every check succeeded.
OnSystemCheckComplete ==
    /\ isSystemCheckOpen
    /\ storage' = TRUE
    /\ isSystemChecked' = TRUE
    /\ isSystemCheckOpen' = FALSE
    /\ path' = "/session"
    /\ IF path = "/"
       THEN /\ isConnecting' = FALSE
            /\ currentLanguage' = "en"
            /\ wire' = Remount(wire)
            /\ agent' = AgentInit
            /\ direct' = DirectInit
       ELSE UNCHANGED <<isConnecting, currentLanguage, wire, agent, direct>>
    /\ last' = NoReq
    /\ preflightSince' = TRUE
    /\ UNCHANGED modal
    /\ UNCHANGED <<mode, hookVersion, streams, looseTracks, calls>>
    /\ Collect(rooms, sockets)

\* onClose of the modal, followed by the SessionPage effect.
CloseModal ==
    /\ isSystemCheckOpen
    /\ isSystemCheckOpen' = EffectOpen(path, isSystemChecked, FALSE)
    /\ last' = NoReq
    /\ UNCHANGED <<path, mode, isSystemChecked, storage, hookVersion, currentLanguage, wire, isConnecting,
                   agent, direct, rooms, sockets, streams, looseTracks, calls, preflightSince, modal>>

\* The header's ShieldCheck button (rendered in the session view).
OpenCheck ==
    /\ path = "/session"
    /\ ~isSystemCheckOpen
    /\ isSystemCheckOpen' = TRUE
    /\ last' = NoReq
    /\ UNCHANGED <<path, mode, isSystemChecked, storage, hookVersion, currentLanguage, wire, isConnecting,
                   agent, direct, rooms, sockets, streams, looseTracks, calls, preflightSince, modal>>

\* A suspended handler whose component unmounted.  Its state setters do
\* nothing any more, so what it captured for them is dropped; what it still
\* does to Rooms, tracks and streams stays.
Orphaned(c) ==
    [c EXCEPT !.g = FALSE, !.kind = IF c.pc = "gum" THEN "rec" ELSE "conn",
              !.capMic = TRUE, !.capRoom = NoRoom, !.capRec = FALSE]

\* navigate('/') (Exit button, logo): SessionPage unmounts and both hooks run
\* their unmount cleanup.  Suspended handlers are not cancelled: the ones
\* that wait for a token, a Room or a stream go on; a pending mic timer and a
\* connect() whose socket the cleanup closed have nothing left to change.
NavigateHome ==
    /\ path = "/session"
    /\ path' = "/"
    /\ streams' = StopTracks(streams, direct.streamRef)
    /\ calls' = Norm({Orphaned(c) : c \in {d \in calls : d.pc \notin {"timer", "dconnect"}}})
    /\ agent' = AgentInit
    /\ direct' = DirectInit
    /\ isConnecting' = FALSE
    /\ last' = NoReq
    /\ currentLanguage' = "en"
    /\ wire' = Remount(wire)
    /\ UNCHANGED <<mode, isSystemCheckOpen, isSystemChecked, storage, hookVersion,
                   looseTracks, preflightSince, modal>>
    /\ Collect([r \in 1..MaxRooms |->
                   [RoomDisconnect(rooms, agent.roomRef)[r] EXCEPT !.g = FALSE]],
               [s \in 1..MaxSockets |->
                   [SocketClose(sockets, direct.wsRef)[s] EXCEPT !.g = FALSE]])

\* Page reload: the JavaScript context and every connection and track die,
\* sessionStorage and the location survive; AppContent's mount effect then
\* restores the gate from sessionStorage, after SessionPage's effect ran.
Reload ==
    /\ mode' = "agent"
    /\ isSystemChecked' = storage
    /\ isSystemCheckOpen' = (path = "/session")
    /\ isConnecting' = FALSE
    /\ agent' = AgentInit
    /\ direct' = DirectInit
    /\ rooms' = [r \in 1..MaxRooms |-> FreeRoom]
    /\ sockets' = [s \in 1..MaxSockets |-> FreeSocket]
    /\ streams' = [s \in 1..MaxStreams |-> "free"]
    /\ looseTracks' = FALSE
    /\ calls' = {}
    /\ last' = NoReq
    /\ preflightSince' = FALSE
    /\ UNCHANGED modal
    /\ currentLanguage' = "en"
    /\ wire' = Remount(wire)
    /\ UNCHANGED <<path, storage, hookVersion>>


\* ------------------------------------------------ SessionPage: the requests
\* A gate check that lets every request through (what C3 excludes).
NeverBlocks == FALSE

\* "if (!isSystemChecked) { startCheck(); return ... }", the first statement
\* of handleToggleConnect and of handleToggleMic.
GateBlocks == ~isSystemChecked

\* Suspended handlers are told apart by a number: two invocations of the
\* same handler from the same render are two handlers.
FreeId == CHOOSE i \in 1..MaxCalls :
             /\ i \notin {c.id : c \in calls}
             /\ \A q \in 1..MaxCalls : q < i => q \in {c.id : c \in calls}

\* A handler suspended at an await, with what its closure captured.
NewCall(kind, m, pc, obj) ==
    [id |-> FreeId, kind |-> kind, g |-> TRUE, m |-> m, pc |-> pc, obj |-> obj,
     capMic |-> IF kind = "mic" /\ m = "agent" THEN agent.micEnabled ELSE TRUE,
     capRoom |-> IF kind = "mic" /\ m = "agent" THEN agent.room ELSE NoRoom,
     capRec |-> IF kind = "mic" /\ m = "direct" THEN direct.isRecording ELSE FALSE,
     reached |-> FALSE, capErr |-> FALSE]

\* startCheck(); return
GateBlocked ==
    /\ isSystemCheckOpen' = TRUE
    /\ last' = [NoReq EXCEPT !.ret = "gate"]
    /\ UNCHANGED <<path, mode, isSystemChecked, storage, hookVersion, currentLanguage, wire, isConnecting,
                   agent, direct, rooms, sockets, streams, looseTracks, calls, preflightSince, modal>>

\* handleToggleConnect, agent mode, connected: await agent.disconnect().
LeaveAgent ==
    /\ agent' = AgentDisconnected(agent)
    /\ last' = [NoReq EXCEPT !.ret = "leave",
                             !.liveAtClose = MicLiveAtRoomClose(rooms, agent.roomRef)]
    /\ UNCHANGED <<appVars, hookVersion, isConnecting, direct, streams,
                   looseTracks, calls, preflightSince, modal>>
    /\ Collect(RoomDisconnect(rooms, agent.roomRef), sockets)

\* handleToggleConnect, agent mode, not connected: setIsConnecting(true) and
\* await fetchToken().
BeginAgentConnect(kind) ==
    /\ CallBudget /\ RoomBudget
    /\ isConnecting' = TRUE
    /\ calls' = Norm(calls \cup {NewCall(kind, "agent", "fetch", NoRoom)})
    /\ last' = NoReq
    /\ UNCHANGED <<appVars, hookVersion, agent, direct, rooms, sockets, streams,
                   looseTracks, preflightSince, modal>>

\* handleToggleConnect, direct mode, connected: direct.disconnect().
LeaveDirect ==
    /\ streams' = StopTracks(streams, direct.streamRef)
    /\ direct' = DirectDisconnected(direct)
    /\ last' = [NoReq EXCEPT !.ret = "leave",
                             !.liveAtClose =
                                 TracksLiveAtSocketClose(StopTracks(streams, direct.streamRef),
                                                         sockets, direct.wsRef)]
    /\ UNCHANGED <<appVars, hookVersion, isConnecting, agent, looseTracks,
                   calls, preflightSince, modal>>
    /\ Collect(rooms, SocketClose(sockets, direct.wsRef))

\* handleToggleConnect, direct mode, not connected: await direct.connect(),
\* which constructs a WebSocket and stores it in wsRef.
BeginDirectConnect(kind) ==
    /\ CallBudget /\ SocketBudget
    /\ kind = "mic" => StreamBudget
    /\ isConnecting' = TRUE
    /\ direct' = [direct EXCEPT !.wsRef = NewSocket]
    /\ calls' = Norm(calls \cup {NewCall(kind, "direct", "dconnect", NewSocket)})
    /\ last' = NoReq
    /\ UNCHANGED <<appVars, hookVersion, agent, streams, looseTracks, preflightSince, modal>>
    /\ Collect(rooms, [SocketsAtConnect EXCEPT ![NewSocket] = [st |-> "connecting", g |-> TRUE]])

\* setMicEnabled(newState) placed where a rejection cannot skip it.
SetMicEnabledAnyway(a, ok, newState) == [a EXCEPT !.micEnabled = newState]

\* toggleMicrophone after its await: "await setMicrophoneEnabled(newState);
\* setMicEnabled(newState)"; a rejection leaves the function at the await.
SetMicEnabled(a, ok, newState) ==
    IF ok THEN [a EXCEPT !.micEnabled = newState] ELSE a

\* useLiveKit.toggleMicrophone as the current render sees it; ok: whether
\* setMicrophoneEnabled resolves.
ToggleMicrophoneDone(ok) ==
    /\ agent' = IF agent.room # NoRoom
                THEN SetMicEnabled(agent, ok, ~agent.micEnabled)
                ELSE agent
    /\ last' = [NoReq EXCEPT !.ret = "toggle", !.capErr = (agent.room # NoRoom /\ ~ok)]

ToggleMicrophone ==
    /\ \E ok \in BOOLEAN : ToggleMicrophoneDone(ok)
    /\ UNCHANGED <<appVars, hookVersion, isConnecting, direct, rooms, sockets, streams,
                   looseTracks, calls, preflightSince, modal>>

\* useDirectStream.toggleRecording as the current render sees it.
ToggleRecording ==
    /\ IF direct.isRecording
       THEN /\ direct' = StopRecording(direct)
            /\ streams' = StopTracks(streams, direct.streamRef)
            /\ UNCHANGED calls
       ELSE /\ UNCHANGED <<direct, streams>>
            /\ IF direct.wsRef # NoSocket /\ sockets[direct.wsRef].st = "open"
               THEN /\ CallBudget /\ StreamBudget
                    /\ calls' = Norm(calls \cup {NewCall("rec", "direct", "gum", NoSocket)})
               ELSE UNCHANGED calls
    /\ last' = NoReq
    /\ UNCHANGED <<appVars, hookVersion, isConnecting, agent, rooms, sockets,
                   looseTracks, preflightSince, modal>>

\* The Connect / Leave button (disabled while isConnecting).
HandleToggleConnect ==
    /\ path = "/session"
    /\ ~isConnecting
    /\ \/ GateBlocks /\ GateBlocked
       \/ ~GateBlocks /\ mode = "agent" /\ agent.isConnected /\ LeaveAgent
       \/ ~GateBlocks /\ mode = "agent" /\ ~agent.isConnected /\ BeginAgentConnect("conn")
       \/ ~GateBlocks /\ mode = "direct" /\ direct.isConnected /\ LeaveDirect
       \/ ~GateBlocks /\ mode = "direct" /\ ~direct.isConnected /\ BeginDirectConnect("conn")

\* The Start / Live button (disabled while isConnecting).
HandleToggleMic ==
    /\ path = "/session"
    /\ ~isConnecting
    /\ \/ GateBlocks /\ GateBlocked
       \/ ~GateBlocks /\ mode = "agent" /\ agent.isConnected /\ ToggleMicrophone
       \/ ~GateBlocks /\ mode = "agent" /\ ~agent.isConnected /\ BeginAgentConnect("mic")
       \/ ~GateBlocks /\ mode = "direct" /\ direct.isConnected /\ ToggleRecording
       \/ ~GateBlocks /\ mode = "direct" /\ ~direct.isConnected /\ BeginDirectConnect("mic")

\* ----------------------------------------- the requests after their awaits
\* What handleToggleConnect's `success` is once agent.connect went through
\* its catch block: the first definition swallows the error and connect()
\* resolves (success = true); the second calls the undeclared setError, the
\* ReferenceError rejects connect() and handleToggleConnect catches it.
CatchSuccess == hookVersion = 1

\* The catch block of useLiveKit.connect: setIsConnected(false) in the first
\* definition; nothing is reached in the second (setError throws before
\* handleReconnect is called).
AgentAfterCatch(a, live) ==
    IF hookVersion = 1 /\ live THEN [a EXCEPT !.isConnected = FALSE] ELSE a

LastOf(c, success, ended) ==
    [ret |-> IF success THEN "true" ELSE "false", reached |-> c.reached,
     ended |-> ended, smart |-> c.kind = "mic", m |-> c.m,
     capErr |-> c.capErr, live |-> Live(c.g), liveAtClose |-> FALSE, msg |-> ""]

\* handleToggleMic wants to enable capture after handleToggleConnect returned.
WantsCapture(c, success) ==
    /\ c.kind = "mic"
    /\ success
    /\ IF c.m = "agent" THEN ~c.capMic ELSE ~c.capRec

\* A handleToggleConnect without its finally block (what C38 relies on).
ReturnNoFinally(c, success, wsOpen) ==
    /\ UNCHANGED isConnecting
    /\ IF WantsCapture(c, success) /\ (c.m = "direct" => wsOpen)
       THEN /\ calls' = Norm((calls \ {c}) \cup
                        {[c EXCEPT !.pc = IF c.m = "agent" THEN "timer" ELSE "gum",
                                   !.obj = IF c.m = "agent" THEN NoRoom ELSE NoSocket]})
            /\ last' = LastOf(c, success, FALSE)
       ELSE /\ calls' = Norm(calls \ {c})
            /\ last' = LastOf(c, success, TRUE)

\* handleToggleConnect's finally and return, then the rest of handleToggleMic:
\* agent mode: setTimeout(() => agent.toggleMicrophone(), 100);
\* direct mode: direct.toggleRecording(), i.e. startRecording, whose socket
\* check is `wsOpen`.
Return(c, success, wsOpen) ==
    /\ isConnecting' = IF Live(c.g) THEN FALSE ELSE isConnecting
    /\ IF WantsCapture(c, success) /\ (c.m = "direct" => wsOpen)
       THEN /\ calls' = Norm((calls \ {c}) \cup
                        {[c EXCEPT !.pc = IF c.m = "agent" THEN "timer" ELSE "gum",
                                   !.obj = IF c.m = "agent" THEN NoRoom ELSE NoSocket]})
            /\ last' = LastOf(c, success, FALSE)
       ELSE /\ calls' = Norm(calls \ {c})
            /\ last' = LastOf(c, success, TRUE)

\* fetchToken() resolved; with a token, agent.connect(t, url) runs up to
\* "await newRoom.connect(wsUrl, token)".
FetchTokenDone(c, tok) ==
    /\ c.pc = "fetch"
    /\ IF tok
       THEN /\ last' = NoReq
            /\ UNCHANGED <<isConnecting, direct>>
            /\ \E r \in {NewRoom(RoomsAtConnect(Live(c.g)))} :
                 /\ agent' = IF Live(c.g) THEN [agent EXCEPT !.roomRef = r] ELSE agent
                 /\ calls' = Norm((calls \ {c}) \cup {[c EXCEPT !.pc = "lkconnect", !.obj = r]})
                 /\ Collect([RoomsAtConnect(Live(c.g))
                              EXCEPT ![r] = [st |-> "connecting", mic |-> FALSE, g |-> c.g]],
                            sockets)
       ELSE /\ Return(c, FALSE, FALSE)
            /\ UNCHANGED <<agent, direct>>
            /\ Collect(rooms, sockets)
    /\ UNCHANGED <<appVars, hookVersion, streams, looseTracks, preflightSince, modal>>

\* newRoom.connect() settled.  Resolved: RoomEvent.Connected, then
\* "await createLocalAudioTrack".  Rejected: the catch block.
RoomConnectDone(c, ok) ==
    /\ c.pc = "lkconnect"
    /\ IF ok
       THEN /\ rooms[c.obj].st = "connecting"
            /\ agent' = IF Live(c.g)
                        THEN [agent EXCEPT !.isConnected = TRUE,
                                           !.connectionState = "connected",
                                           !.reconnectAttempts = 0, !.delays = <<>>]
                        ELSE agent
            /\ calls' = Norm((calls \ {c}) \cup {[c EXCEPT !.pc = "lktrack", !.reached = TRUE]})
            /\ last' = NoReq
            /\ UNCHANGED <<isConnecting, direct>>
            /\ Collect([rooms EXCEPT ![c.obj].st = "connected"], sockets)
       ELSE /\ agent' = AgentAfterCatch(agent, Live(c.g))
            /\ Return(c, CatchSuccess, FALSE)
            /\ UNCHANGED direct
            /\ Collect(IF rooms[c.obj].st = "connecting"
                       THEN [rooms EXCEPT ![c.obj] = [st |-> "failed", mic |-> FALSE, g |-> FALSE]]
                       ELSE rooms,
                       sockets)
    /\ UNCHANGED <<appVars, hookVersion, streams, looseTracks, preflightSince, modal>>

\* createLocalAudioTrack / publishTrack settled: "published" (setRoom, and
\* checkAgents() on the room's participants, called after setRoom in the
\* first definition and by the effect on [room] in the second),
\* "denied" (no track) or "unpublished" (a track was created and publishTrack
\* rejected; nothing stops that track).
TrackDone(c, out) ==
    /\ c.pc = "lktrack"
    /\ out = "published" => rooms[c.obj].st = "connected"
    /\ looseTracks' = (looseTracks \/ out = "unpublished")
    /\ agent' = IF out = "published"
                THEN (IF Live(c.g)
                      THEN [agent EXCEPT !.room = c.obj, !.agentConnected = wire.present]
                      ELSE agent)
                ELSE AgentAfterCatch(agent, Live(c.g))
    /\ IF out = "published"
       THEN Return(c, TRUE, FALSE)
       ELSE \E c2 \in {[c EXCEPT !.capErr = TRUE]} :
              /\ isConnecting' = IF Live(c.g) THEN FALSE ELSE isConnecting
              /\ IF WantsCapture(c2, CatchSuccess)
                 THEN /\ calls' = Norm((calls \ {c}) \cup {[c2 EXCEPT !.pc = "timer", !.obj = NoRoom]})
                      /\ last' = LastOf(c2, CatchSuccess, FALSE)
                 ELSE /\ calls' = Norm(calls \ {c})
                      /\ last' = LastOf(c2, CatchSuccess, TRUE)
    /\ UNCHANGED <<appVars, hookVersion, direct, streams, preflightSince, modal>>
    /\ Collect(IF out = "published" THEN [rooms EXCEPT ![c.obj].mic = TRUE] ELSE rooms,
               sockets)

\* The 100 ms timer of handleToggleMic fires: agent.toggleMicrophone() of the
\* render in which the request started (room and micEnabled as captured).
MicTimerFires(c, ok) ==
    /\ c.pc = "timer"
    /\ agent' = IF c.capRoom # NoRoom /\ Live(c.g)
                THEN SetMicEnabled(agent, ok, ~c.capMic)
                ELSE agent
    /\ calls' = Norm(calls \ {c})
    /\ last' = [LastOf(c, TRUE, TRUE) EXCEPT !.ret = "none",
                   !.capErr = c.capErr \/ (c.capRoom # NoRoom /\ ~ok)]
    /\ UNCHANGED <<appVars, hookVersion, isConnecting, direct, streams,
                   looseTracks, preflightSince, modal>>
    /\ Collect(rooms, sockets)

\* ws.onopen: setIsConnected(true); resolve().
SocketOpened(c) ==
    /\ c.pc = "dconnect"
    /\ sockets[c.obj].st = "connecting"
    /\ direct' = IF Live(c.g) THEN [direct EXCEPT !.isConnected = TRUE] ELSE direct
    /\ \E c2 \in {[c EXCEPT !.reached = TRUE]} :
         /\ isConnecting' = IF Live(c.g) THEN FALSE ELSE isConnecting
         /\ IF WantsCapture(c2, TRUE) /\ Live(c.g) /\ direct.wsRef = c.obj
            THEN /\ calls' = Norm((calls \ {c}) \cup {[c2 EXCEPT !.pc = "gum", !.obj = NoSocket]})
                 /\ last' = LastOf(c2, TRUE, FALSE)
            ELSE /\ calls' = Norm(calls \ {c})
                 /\ last' = LastOf(c2, TRUE, TRUE)
    /\ UNCHANGED <<appVars, hookVersion, agent, streams, looseTracks, preflightSince, modal>>
    /\ Collect(rooms, [sockets EXCEPT ![c.obj].st = "open"])

\* ws.onerror (setIsConnected(false); reject(err)) followed by ws.onclose
\* (setIsConnected(false); stopRecording()).
SocketFailed(c) ==
    /\ c.pc = "dconnect"
    /\ sockets[c.obj].st = "connecting"
    /\ direct' = IF Live(c.g)
                 THEN OnClose(direct)
                 ELSE direct
    /\ streams' = IF Live(c.g) THEN StopTracks(streams, direct.streamRef) ELSE streams
    /\ Return(c, FALSE, FALSE)
    /\ UNCHANGED <<appVars, hookVersion, agent, looseTracks, preflightSince, modal>>
    /\ Collect(rooms, SocketClose(sockets, c.obj))

\* startRecording after "await getUserMedia": the stream is stored in
\* streamRef (whatever it held), the graph is built, setIsRecording(true);
\* or getUserMedia rejected and the catch only logs.
GumDone(c, ok) ==
    /\ c.pc = "gum"
    /\ streams' = IF ok THEN [streams EXCEPT ![NewStream] = "live"] ELSE streams
    /\ direct' = IF ok /\ Live(c.g)
                 THEN [direct EXCEPT !.streamRef = NewStream, !.mediaRecorderRef = TRUE,
                                     !.isRecording = TRUE,
                                     !.cycles = IF @ < MaxCycles THEN @ + 1 ELSE @]
                 ELSE direct
    /\ calls' = Norm(calls \ {c})
    /\ last' = [LastOf(c, TRUE, TRUE) EXCEPT !.ret = "none", !.capErr = ~ok]
    /\ UNCHANGED <<appVars, hookVersion, isConnecting, agent, rooms, sockets,
                   looseTracks, preflightSince, modal>>

\* --------------------------------------------------- events from the network
\* RoomEvent.Disconnected of a connected room (the relay dropped it).
RoomDropped(r) ==
    /\ rooms[r].st = "connected"
    /\ agent' = IF Live(rooms[r].g)
                THEN [agent EXCEPT !.isConnected = FALSE, !.connectionState = "disconnected"]
                ELSE agent
    /\ last' = NoReq
    /\ UNCHANGED <<appVars, hookVersion, isConnecting, direct, streams,
                   looseTracks, calls, preflightSince, modal>>
    /\ Collect([rooms EXCEPT ![r] = [st |-> "closed", mic |-> FALSE, g |-> FALSE]], sockets)

\* ws.onclose of an open socket (the server closed it).
SocketDropped(s) ==
    /\ sockets[s].st = "open"
    /\ direct' = IF Live(sockets[s].g)
                 THEN OnClose(direct)
                 ELSE direct
    /\ streams' = IF Live(sockets[s].g) THEN StopTracks(streams, direct.streamRef) ELSE streams
    /\ last' = NoReq
    /\ UNCHANGED <<appVars, hookVersion, isConnecting, agent, looseTracks,
                   calls, preflightSince, modal>>
    /\ Collect(rooms, [sockets EXCEPT ![s] = [st |-> "closed", g |-> FALSE]])

\* ws.onclose of a socket disconnect() closed and let go, delivered after
\* disconnect() returned: setIsConnected(false); stopRecording(), which
\* works on the refs as they are now.  The event is followed in the
\* specifications of the DirectSocket hook and of the language channel.
StaleSocketClosed ==
    /\ direct.closePending
    /\ direct' = [OnClose(direct) EXCEPT !.closePending = FALSE]
    /\ streams' = StopTracks(streams, direct.streamRef)
    /\ last' = NoReq
    /\ UNCHANGED <<appVars, hookVersion, isConnecting, agent, rooms, sockets, looseTracks,
                   calls, preflightSince, modal>>

\* ------------------------------------------------------------ specification
Next ==
    \/ \E sel \in Modes : HandleEnterMode(sel)
    \/ OnSystemCheckComplete
    \/ CloseModal
    \/ OpenCheck
    \/ NavigateHome
    \/ Reload
    \/ HandleToggleConnect
    \/ HandleToggleMic
    \/ \E c \in calls, tok \in BOOLEAN : FetchTokenDone(c, tok)
    \/ \E c \in calls, ok \in BOOLEAN : RoomConnectDone(c, ok)
    \/ \E c \in calls, out \in {"published", "denied", "unpublished"} : TrackDone(c, out)
    \/ \E c \in calls, ok \in BOOLEAN : MicTimerFires(c, ok)
    \/ \E c \in calls : SocketOpened(c)
    \/ \E c \in calls : SocketFailed(c)
    \/ \E c \in calls, ok \in BOOLEAN : GumDone(c, ok)
    \/ \E r \in 1..MaxRooms : RoomDropped(r)
    \/ \E s \in 1..MaxSockets : SocketDropped(s)

Spec == Init /\ [][Next]_vars


\* ------------------------------------------------------------------ claims
ActiveRooms == {r \in 1..MaxRooms : ActiveRoom(r)}
ActiveSockets == {s \in 1..MaxSockets : ActiveSocket(s)}

\* A microphone track held through CloudRelay / through DirectSocket.
AgentHoldsMic == looseTracks \/ \E r \in 1..MaxRooms : rooms[r].mic
DirectHoldsMic == \E s \in 1..MaxStreams : streams[s] = "live"

\* The mounted hook's transport is up right now.
AgentUp == agent.isConnected /\ agent.roomRef # NoRoom /\ rooms[agent.roomRef].st = "connected"
DirectUp == direct.isConnected /\ direct.wsRef # NoSocket /\ sockets[direct.wsRef].st = "open"

\* C1: at most one transport instance (a Room or a WebSocket that is
\* connecting or connected) exists at any time.
C1_SingleTransport == Cardinality(ActiveRooms) + Cardinality(ActiveSockets) <= 1

\* C2: a start request made while disconnected, whose connect succeeded and
\* whose capture step met no device error, ends Connected with capture
\* enabled (agent: micEnabled; direct: isRecording), whatever the mic flag
\* was before.
C2_SmartStartCaptures ==
    (last.ended /\ last.smart /\ last.live /\ last.reached /\ ~last.capErr)
        => IF last.m = "agent"
           THEN AgentUp => agent.micEnabled
           ELSE DirectUp => direct.isRecording

\* C3: while the gate isSystemChecked is false, a start or connect request
\* begins no token fetch and no connect(): it opens the preflight and
\* returns, leaving connection and capture state as they were.
C3_GateBlocksRequests ==
    [][ ~isSystemChecked =>
          /\ \A c \in calls' \ calls : c.pc \notin {"fetch", "dconnect"}
          /\ (HandleToggleConnect \/ HandleToggleMic) =>
                /\ isSystemCheckOpen'
                /\ UNCHANGED <<isSystemChecked, isConnecting, agent, direct, rooms,
                               sockets, streams, looseTracks, calls>> ]_vars

\* C3 happens: a request was made with the gate false, the preflight is open
\* and nothing is in flight for the mounted page.
C3_Witness ==
    /\ last.ret = "gate"
    /\ ~isSystemChecked
    /\ isSystemCheckOpen
    /\ \A c \in calls : ~Live(c.g)

\* C4: handleToggleConnect reports success only when the transport actually
\* reached Connected.
C4_SuccessMeansConnected == last.ret = "true" => last.reached

\* C6: no connect begins for the mounted page unless a preflight run has
\* completed since the mode was selected (or the page was loaded).
C6_FreshPreflight ==
    \A c \in calls : (Live(c.g) /\ c.pc \in {"fetch", "dconnect"}) => preflightSince

\* C7: the two transports never hold the microphone at the same time.
C7_OneMicHolder == ~(AgentHoldsMic /\ DirectHoldsMic)

\* C8: after a failed CloudRelay connect a retry is scheduled, or the
\* attempts are used up and the connection state is Failed.
C8_FailureSchedulesRetry ==
    (agent.roomRef # NoRoom /\ rooms[agent.roomRef].st = "failed")
        => \/ agent.reconnectTimeout
           \/ (agent.reconnectAttempts >= maxReconnectAttempts
               /\ agent.connectionState = "failed")


\* ---------------------------------------------- CloudRelay reconnection
\* The retry path of the second useLiveKit definition, driven at the hook's
\* own interface (connect, disconnect, the retry timer).  Its catch block
\* names handleReconnect after the call of the undeclared setError; here the
\* catch block is followed through to handleReconnect, which is how the
\* backoff and the timer become observable at all.

\* Math.pow(2, n)
Pow2(n) == 2 ^ n

\* A backoff without the cap (what C9's maximum excludes).
DelayUncapped(n) == BaseDelay * Pow2(n)

\* Math.min(1000 * Math.pow(2, reconnectAttemptsRef.current), 30000), read
\* after the counter was incremented to n.
Delay(n) == IF BaseDelay * Pow2(n) < MaxDelay THEN BaseDelay * Pow2(n) ELSE MaxDelay

\* handleReconnect(token, url)
HandleReconnect(a) ==
    IF a.reconnectAttempts >= maxReconnectAttempts
    THEN a
    ELSE [a EXCEPT !.reconnectAttempts = a.reconnectAttempts + 1,
                   !.delays = Append(a.delays, Delay(a.reconnectAttempts + 1)),
                   !.lostTimers = IF a.reconnectTimeout THEN a.lostTimers + 1 ELSE a.lostTimers,
                   !.reconnectTimeout = TRUE]

RetryInit ==
    /\ path = "/session"
    /\ mode = "agent"
    /\ isSystemCheckOpen = FALSE
    /\ isSystemChecked = TRUE
    /\ storage = TRUE
    /\ hookVersion = 2
    /\ currentLanguage = "en"
    /\ wire = WireInit
    /\ isConnecting = FALSE
    /\ agent = AgentInit
    /\ direct = DirectInit
    /\ rooms = [r \in 1..MaxRooms |-> FreeRoom]
    /\ sockets = [s \in 1..MaxSockets |-> FreeSocket]
    /\ streams = [s \in 1..MaxStreams |-> "free"]
    /\ looseTracks = FALSE
    /\ calls = {}
    /\ last = NoReq
    /\ preflightSince = TRUE
    /\ modal = ModalInit

retryFixed == <<appVars, hookVersion, isConnecting, direct, streams,
                looseTracks, preflightSince, modal>>

\* connect(token, url) up to "await newRoom.connect(wsUrl, token)": a new Room
\* is built and stored in roomRef; the pending timer is not touched.
ConnectBegins(a, r) == [a EXCEPT !.roomRef = r]

\* connect(token, url) called by the hook's owner.
HookConnect ==
    /\ CallBudget /\ RoomBudget
    /\ last' = [NoReq EXCEPT !.ret = "connect"]
    /\ UNCHANGED retryFixed
    /\ \E r \in {NewRoom(RoomsAtConnect(TRUE))} :
         /\ agent' = ConnectBegins(agent, r)
         /\ calls' = Norm(calls \cup {NewCall("hook", "agent", "lkconnect", r)})
         /\ Collect([RoomsAtConnect(TRUE)
                      EXCEPT ![r] = [st |-> "connecting", mic |-> FALSE, g |-> TRUE]],
                    sockets)

\* A retry timer fires: connect(token, url).  fromRef: the timer is the one
\* reconnectTimeoutRef holds, otherwise one the ref no longer holds.
RetryTimerFires(fromRef) ==
    /\ IF fromRef THEN agent.reconnectTimeout ELSE agent.lostTimers > 0
    /\ CallBudget /\ RoomBudget
    /\ last' = [NoReq EXCEPT !.ret = "retry"]
    /\ UNCHANGED retryFixed
    /\ \E r \in {NewRoom(RoomsAtConnect(TRUE))} :
         /\ agent' = IF fromRef
                     THEN [ConnectBegins(agent, r) EXCEPT !.reconnectTimeout = FALSE]
                     ELSE [ConnectBegins(agent, r) EXCEPT !.lostTimers = agent.lostTimers - 1]
         /\ calls' = Norm(calls \cup {NewCall("hook", "agent", "lkconnect", r)})
         /\ Collect([RoomsAtConnect(TRUE)
                      EXCEPT ![r] = [st |-> "connecting", mic |-> FALSE, g |-> TRUE]],
                    sockets)

\* newRoom.connect() settled.  Resolved: RoomEvent.Connected resets the
\* attempt counter, the track is published, setRoom.  Rejected: the catch
\* block, on to handleReconnect.
HookConnectDone(c, ok) ==
    /\ c.pc = "lkconnect"
    /\ IF ok
       THEN /\ rooms[c.obj].st = "connecting"
            /\ agent' = [agent EXCEPT !.isConnected = TRUE, !.connectionState = "connected",
                                      !.reconnectAttempts = 0, !.delays = <<>>,
                                      !.room = c.obj, !.agentConnected = wire.present]
       ELSE /\ HandleReconnect(agent).lostTimers <= MaxLostTimers
            /\ agent' = HandleReconnect(agent)
    /\ calls' = Norm(calls \ {c})
    /\ last' = NoReq
    /\ UNCHANGED retryFixed
    /\ Collect(IF rooms[c.obj].st # "connecting" THEN rooms
               ELSE IF ok
               THEN [rooms EXCEPT ![c.obj] = [st |-> "connected", mic |-> TRUE, g |-> c.g]]
               ELSE [rooms EXCEPT ![c.obj] = [st |-> "failed", mic |-> FALSE, g |-> FALSE]],
               sockets)

\* disconnect() called by the hook's owner.
HookDisconnect ==
    /\ agent' = AgentDisconnectedV2(agent)
    /\ last' = [NoReq EXCEPT !.ret = "disconnect",
                             !.liveAtClose = MicLiveAtRoomClose(rooms, agent.roomRef)]
    /\ UNCHANGED <<retryFixed, calls>>
    /\ Collect(RoomDisconnect(rooms, agent.roomRef), sockets)

MaxLog == 2         \* entries the TranscriptLog holds
MaxFrames == 2      \* audio frames the capture callback produces

\* Inbound payloads (event.data), by what JSON.parse makes of them.
Hello ==
    [name |-> "hello", parses |-> TRUE, type |-> "transcription", text |-> "hello",
     isFinal |-> TRUE, latency_ms |-> <<120>>]
Partial ==
    [name |-> "partial", parses |-> TRUE, type |-> "transcription", text |-> "hel",
     isFinal |-> FALSE, latency_ms |-> <<45>>]
Typeless == [Hello EXCEPT !.name = "typeless", !.type = "undefined"]
Garbage ==
    [name |-> "garbage", parses |-> FALSE, type |-> "undefined", text |-> "undefined",
     isFinal |-> FALSE, latency_ms |-> <<>>]
Inbound == {Hello, Partial, Typeless, Garbage}

\* A handler that keeps only the newest entry: setTranscripts([entry]).
RelayOnDataReplaces(log, m) ==
    IF m.parses /\ m.type = "transcription" THEN <<[text |-> m.text]>> ELSE log

\* RoomEvent.DataReceived: try { data = JSON.parse(str); if (data.type ===
\* 'transcription') setTranscripts(prev => [...prev, {text, timestamp}]) }
\* catch { log }   (timestamp: Date.now(), left out)
RelayOnData(log, m) ==
    IF m.parses /\ m.type = "transcription" THEN Append(log, [text |-> m.text]) ELSE log

\* A data packet arrives on a connected room.
RelayData(r, m) ==
    /\ rooms[r].st = "connected"
    /\ Len(RelayOnData(agent.transcripts, m)) <= MaxLog
    /\ agent' = [agent EXCEPT !.transcripts = RelayOnData(agent.transcripts, m)]
    /\ last' = [NoReq EXCEPT !.ret = "ondata", !.msg = m.name]
    /\ UNCHANGED <<retryFixed, rooms, sockets, calls>>

\* WorkerClient's message handler on the server: a message that parses and
\* has type 'transcription' is emitted, and the Agent publishes
\* {type: 'transcription', text} to the room; anything else is dropped.
WorkerPublishes(m) ==
    IF m.parses /\ m.type = "transcription"
    THEN {[name |-> m.name, parses |-> TRUE, type |-> "transcription", text |-> m.text]}
    ELSE {}

\* The worker sends a message to the server's Agent; what the Agent
\* publishes reaches the client over the room's reliable data channel.
WorkerMessage(r, m) ==
    /\ rooms[r].st = "connected"
    /\ \A p \in WorkerPublishes(m) : Len(agent.transcripts) < MaxLog
    /\ agent' = IF WorkerPublishes(m) = {} THEN agent
                ELSE [agent EXCEPT !.transcripts =
                        RelayOnData(@, CHOOSE p \in WorkerPublishes(m) : TRUE)]
    /\ last' = [NoReq EXCEPT !.ret = "onworker", !.msg = m.name]
    /\ UNCHANGED <<retryFixed, rooms, sockets, calls>>

RetryNext ==
    \/ \E r \in 1..MaxRooms, m \in Inbound : RelayData(r, m)
    \/ \E r \in 1..MaxRooms, m \in Inbound : WorkerMessage(r, m)
    \/ HookConnect
    \/ \E fromRef \in BOOLEAN : RetryTimerFires(fromRef)
    \/ \E c \in calls, ok \in BOOLEAN : HookConnectDone(c, ok)
    \/ HookDisconnect
    \/ \E r \in 1..MaxRooms : RoomDropped(r)

SpecRetry == RetryInit /\ [][RetryNext]_vars

FreeRuns == {i \in 1..MaxRuns : modal.runs[i].pc = "none"}
FreeRun == CHOOSE j \in FreeRuns : \A q \in FreeRuns : j <= q

\* runChecks() up to "await fetch(`${backendUrl}/health`)", in run slot i.
RunChecksStart(m, i) ==
    [m EXCEPT !.isRunning = TRUE, !.checks["backend"] = "running",
              !.runs[i] = [pc |-> "health", backendHealthy |-> FALSE]]

\* The else branch of the effect on isOpen: every check back to idle.
ResetChecks(m) == [m EXCEPT !.checks = IdleChecks]

allPassed == \A k \in CheckKeys : modal.checks[k] = "success"
allFinished == \A k \in CheckKeys : modal.checks[k] \in {"success", "error"}

Outcome(ok) == IF ok THEN "success" ELSE "error"

pfHooks == <<path, mode, hookVersion, currentLanguage, wire, isConnecting, agent, direct, rooms,
             sockets, looseTracks, calls>>
pfFixed == <<pfHooks, streams>>

\* A mic check that keeps the stream it was granted (what C28 excludes).
MicCheckKeepsStream(ms, ok) == IF ok THEN [ms EXCEPT ![NewStream] = "live"] ELSE ms

\* The mic check after "await getUserMedia": a granted stream has every
\* track stopped at once, before setChecks; a rejection acquired nothing.
MicCheckStream(ms, ok) ==
    IF ok THEN StopTracks([ms EXCEPT ![NewStream] = "live"], NewStream) ELSE ms

PreflightInit ==
    /\ path = "/session"
    /\ mode \in Modes
    /\ isSystemCheckOpen = TRUE
    /\ isSystemChecked = FALSE
    /\ storage \in BOOLEAN
    /\ hookVersion = 1
    /\ currentLanguage = "en"
    /\ wire = WireInit
    /\ isConnecting = FALSE
    /\ agent = AgentInit
    /\ direct = DirectInit
    /\ rooms = [r \in 1..MaxRooms |-> FreeRoom]
    /\ sockets = [s \in 1..MaxSockets |-> FreeSocket]
    /\ streams = [s \in 1..MaxStreams |-> "free"]
    /\ looseTracks = FALSE
    /\ calls = {}
    /\ last = NoReq
    /\ preflightSince = FALSE
    /\ modal = RunChecksStart(ModalInit, 1)

\* startCheck / the ShieldCheck button: the modal opens and its effect calls
\* runChecks().
PfOpen ==
    /\ ~isSystemCheckOpen
    /\ isSystemCheckOpen' = TRUE
    /\ FreeRuns # {}
    /\ modal' = RunChecksStart(modal, FreeRun)
    /\ last' = NoReq
    /\ UNCHANGED <<pfFixed, isSystemChecked, storage, preflightSince>>

\* onClose: the modal's effect resets the checks; with the gate still false
\* the session page's effect has called startCheck() in the same commit, the
\* modal is open again and its effect calls runChecks().
PfClose ==
    /\ isSystemCheckOpen
    /\ IF ~isSystemChecked
       THEN /\ isSystemCheckOpen' = TRUE
            /\ FreeRuns # {}
            /\ modal' = RunChecksStart(ResetChecks(modal), FreeRun)
       ELSE /\ isSystemCheckOpen' = FALSE
            /\ modal' = ResetChecks(modal)
    /\ last' = NoReq
    /\ UNCHANGED <<pfFixed, isSystemChecked, storage, preflightSince>>

\* The footer button when allPassed: onComplete, then the modal's effect.
PfComplete ==
    /\ isSystemCheckOpen
    /\ allFinished /\ ~modal.isRunning
    /\ allPassed
    /\ storage' = TRUE
    /\ isSystemChecked' = TRUE
    /\ isSystemCheckOpen' = FALSE
    /\ preflightSince' = TRUE
    /\ modal' = ResetChecks(modal)
    /\ last' = NoReq
    /\ UNCHANGED pfFixed

\* The footer button otherwise: runChecks.
PfRetry ==
    /\ isSystemCheckOpen
    /\ allFinished /\ ~modal.isRunning
    /\ ~allPassed
    /\ FreeRuns # {}
    /\ modal' = RunChecksStart(modal, FreeRun)
    /\ last' = NoReq
    /\ UNCHANGED <<pfFixed, isSystemCheckOpen, isSystemChecked, storage, preflightSince>>

\* 1. Backend check settled; await 600 ms.
PfHealthDone(i, ok) ==
    /\ modal.runs[i].pc = "health"
    /\ modal' = [modal EXCEPT !.checks["backend"] = Outcome(ok),
                              !.runs[i] = [pc |-> "wait1", backendHealthy |-> ok]]
    /\ last' = NoReq
    /\ UNCHANGED <<pfFixed, isSystemCheckOpen, isSystemChecked, storage, preflightSince>>

\* 2. Internet check (navigator.onLine); await 600 ms.
PfInternet(i, onLine) ==
    /\ modal.runs[i].pc = "wait1"
    /\ modal' = [modal EXCEPT !.checks["internet"] = Outcome(onLine), !.runs[i].pc = "wait2"]
    /\ last' = NoReq
    /\ UNCHANGED <<pfFixed, isSystemCheckOpen, isSystemChecked, storage, preflightSince>>

\* 3. LiveKit check begins: a token request if the backend was healthy,
\* otherwise error and await 600 ms.  The selected mode is not consulted.
PfLivekit(i) ==
    /\ modal.runs[i].pc = "wait2"
    /\ modal' = IF modal.runs[i].backendHealthy
                THEN [modal EXCEPT !.checks["livekit"] = "running", !.runs[i].pc = "token"]
                ELSE [modal EXCEPT !.checks["livekit"] = "error", !.runs[i].pc = "wait3"]
    /\ last' = NoReq
    /\ UNCHANGED <<pfFixed, isSystemCheckOpen, isSystemChecked, storage, preflightSince>>

\* 3. The token request settled; await 600 ms.
PfTokenDone(i, ok) ==
    /\ modal.runs[i].pc = "token"
    /\ modal' = [modal EXCEPT !.checks["livekit"] = Outcome(ok), !.runs[i].pc = "wait3"]
    /\ last' = NoReq
    /\ UNCHANGED <<pfFixed, isSystemCheckOpen, isSystemChecked, storage, preflightSince>>

\* 4. Mic check begins: await getUserMedia.
PfMic(i) ==
    /\ modal.runs[i].pc = "wait3"
    /\ modal' = [modal EXCEPT !.checks["mic"] = "running", !.runs[i].pc = "gum"]
    /\ last' = NoReq
    /\ UNCHANGED <<pfFixed, isSystemCheckOpen, isSystemChecked, storage, preflightSince>>

\* 4. getUserMedia settled (a stream's tracks are stopped at once);
\* setIsRunning(false).
PfMicDone(i, ok) ==
    /\ modal.runs[i].pc = "gum"
    /\ ok => UsedStreams # 1..MaxStreams
    /\ streams' = MicCheckStream(streams, ok)
    /\ modal' = [modal EXCEPT !.checks["mic"] = Outcome(ok), !.isRunning = FALSE,
                              !.runs[i] = NoRun]
    /\ last' = NoReq
    /\ UNCHANGED <<pfHooks, isSystemCheckOpen, isSystemChecked, storage, preflightSince>>

PreflightNext ==
    \/ PfOpen
    \/ PfClose
    \/ PfComplete
    \/ PfRetry
    \/ \E i \in 1..MaxRuns, ok \in BOOLEAN : PfHealthDone(i, ok)
    \/ \E i \in 1..MaxRuns, onLine \in BOOLEAN : PfInternet(i, onLine)
    \/ \E i \in 1..MaxRuns : PfLivekit(i)
    \/ \E i \in 1..MaxRuns, ok \in BOOLEAN : PfTokenDone(i, ok)
    \/ \E i \in 1..MaxRuns : PfMic(i)
    \/ \E i \in 1..MaxRuns, ok \in BOOLEAN : PfMicDone(i, ok)

SpecPreflight == PreflightInit /\ [][PreflightNext]_vars

\* The checks that concern a mode: the relay (LiveKit) check concerns
\* CloudRelay ("agent") only.
Applicable(m) == IF m = "agent" THEN CheckKeys ELSE CheckKeys \ {"livekit"}

\* C5: the aggregate (allPassed) is true iff every check applicable to the
\* selected mode succeeded, and it is false whenever the mic check is error.
C5_AggregateIffApplicable ==
    /\ allPassed <=> \A k \in Applicable(mode) : modal.checks[k] = "success"
    /\ modal.checks["mic"] = "error" => ~allPassed

\* ------------------------------------------- useDirectStream, hook interface
\* The DirectSocket hook driven at its interface: connect, disconnect,
\* toggleRecording, the socket's events, inbound messages and the capture
\* callback.  Here hookVersion says which definition of useDirectStream is
\* built: 1 is hooks/useDirectStream.js (MediaRecorder chunks, connect()
\* returns nothing), 2 is the later one (raw PCM frames, connect() returns a
\* promise), the one the requests above drive.
\* The entry ws.onmessage builds (timestamp: Date.now(), left out).
EntryV1(m) == [text |-> m.text, isFinal |-> m.isFinal, participant |-> "direct-agent"]
EntryV2(m) ==
    [text |-> m.text, isFinal |-> m.isFinal, latency |-> m.latency_ms,
     participant |-> "direct-agent"]
Entry(m) == IF hookVersion = 1 THEN EntryV1(m) ELSE EntryV2(m)

\* An onmessage that lets a parse failure through as an entry (what C17 excludes).
OnMessageNoCatch(log, m) ==
    IF m.type = "transcription" \/ ~m.parses THEN Append(log, Entry(m)) ELSE log

\* ws.onmessage: try { data = JSON.parse(event.data); if (data.type ===
\* 'transcription') setTranscripts(prev => [...prev, entry]) } catch { log }
OnMessage(log, m) ==
    IF m.parses /\ m.type = "transcription" THEN Append(log, Entry(m)) ELSE log

WsOpen(d) == d.wsRef # NoSocket /\ sockets[d.wsRef].st = "open"

\* What the promise connect() returned settles to (the first definition
\* returns no promise).
ConnectSettles(outcome) == IF hookVersion = 2 THEN outcome ELSE "none"

DirectHookInit ==
    /\ path = "/session"
    /\ mode = "direct"
    /\ isSystemCheckOpen = FALSE
    /\ isSystemChecked = TRUE
    /\ storage = TRUE
    /\ hookVersion \in {1, 2}
    /\ currentLanguage = "en"
    /\ wire = WireInit
    /\ isConnecting = FALSE
    /\ agent = AgentInit
    /\ direct = DirectInit
    /\ rooms = [r \in 1..MaxRooms |-> FreeRoom]
    /\ sockets = [s \in 1..MaxSockets |-> FreeSocket]
    /\ streams = [s \in 1..MaxStreams |-> "free"]
    /\ looseTracks = FALSE
    /\ calls = {}
    /\ last = NoReq
    /\ preflightSince = TRUE
    /\ modal = ModalInit

dsFixed == <<appVars, hookVersion, isConnecting, agent, looseTracks, preflightSince, modal>>

\* connect() called by the hook's owner.
DsConnect ==
    /\ UNCHANGED <<dsFixed, streams, calls>>
    /\ IF WsOpen(direct)
       THEN /\ last' = [NoReq EXCEPT !.ret = ConnectSettles("resolved")]
            /\ UNCHANGED <<direct, rooms, sockets>>
       ELSE /\ SocketBudget
            /\ last' = [NoReq EXCEPT !.ret = "connect"]
            /\ direct' = [direct EXCEPT !.wsRef = NewSocket]
            /\ Collect(rooms, [SocketsAtConnect EXCEPT
                                 ![NewSocket] = [st |-> "connecting", g |-> TRUE]])

\* ws.onopen: setIsConnected(true); resolve().
DsSocketOpened(s) ==
    /\ sockets[s].st = "connecting"
    /\ direct' = [direct EXCEPT !.isConnected = TRUE]
    /\ last' = [NoReq EXCEPT !.ret = ConnectSettles("resolved")]
    /\ UNCHANGED <<dsFixed, streams, calls>>
    /\ Collect(rooms, [sockets EXCEPT ![s].st = "open"])

\* ws.onerror of a connecting socket (setIsConnected(false); reject(err))
\* followed by its ws.onclose.
DsSocketFailed(s) ==
    /\ sockets[s].st = "connecting"
    /\ direct' = OnClose(direct)
    /\ streams' = StopTracks(streams, direct.streamRef)
    /\ last' = [NoReq EXCEPT !.ret = ConnectSettles("rejected")]
    /\ UNCHANGED <<dsFixed, calls>>
    /\ Collect(rooms, SocketClose(sockets, s))

\* ws.onmessage on an open socket.
DsMessage(s, m) ==
    /\ sockets[s].st = "open"
    /\ Len(OnMessage(direct.transcripts, m)) <= MaxLog
    /\ direct' = [direct EXCEPT !.transcripts = OnMessage(direct.transcripts, m)]
    /\ last' = [NoReq EXCEPT !.ret = "onmessage", !.msg = m.name]
    /\ UNCHANGED <<dsFixed, rooms, sockets, streams, calls>>

\* A capture callback that keeps the frame for later when the socket is not
\* open (what C31 excludes).
DsFrameBuffers(nonEmpty) ==
    /\ \E st \in 1..MaxStreams : streams[st] = "live"
    /\ direct.produced < MaxFrames
    /\ direct' =
         IF ~WsOpen(direct) \/ hookVersion # 2
         THEN [direct EXCEPT !.produced = @ + 1, !.reading = @ \cup {direct.produced + 1}]
         ELSE [direct EXCEPT !.produced = @ + 1, !.sent = Append(@, direct.produced + 1)]
    /\ last' = NoReq
    /\ UNCHANGED <<dsFixed, rooms, sockets, streams, calls>>

\* The capture callback hands over frame number direct.produced + 1:
\* processor.onaudioprocess sends it at once if the socket is open;
\* recorder.ondataavailable starts a FileReader on the chunk if it is not
\* empty and the socket is open.  Otherwise the frame is dropped.
DsFrame(nonEmpty) ==
    /\ \E st \in 1..MaxStreams : streams[st] = "live"
    /\ direct.produced < MaxFrames
    /\ direct' =
         IF ~WsOpen(direct) THEN [direct EXCEPT !.produced = @ + 1]
         ELSE IF hookVersion = 2
         THEN [direct EXCEPT !.produced = @ + 1, !.sent = Append(@, direct.produced + 1)]
         ELSE IF nonEmpty
         THEN [direct EXCEPT !.produced = @ + 1, !.reading = @ \cup {direct.produced + 1}]
         ELSE [direct EXCEPT !.produced = @ + 1]
    /\ last' = NoReq
    /\ UNCHANGED <<dsFixed, rooms, sockets, streams, calls>>

\* reader.onloadend of frame n: wsRef.current.send(...).  The readers run
\* independently, so they may finish in any order.  With wsRef null or the
\* socket not open nothing is sent.
DsReadDone(n) ==
    /\ n \in direct.reading
    /\ direct' = IF WsOpen(direct)
                 THEN [direct EXCEPT !.reading = @ \ {n}, !.sent = Append(@, n)]
                 ELSE [direct EXCEPT !.reading = @ \ {n}]
    /\ last' = NoReq
    /\ UNCHANGED <<dsFixed, rooms, sockets, streams, calls>>

DirectNext ==
    \/ DsConnect
    \/ \E s \in 1..MaxSockets : DsSocketOpened(s)
    \/ \E s \in 1..MaxSockets : DsSocketFailed(s)
    \/ \E s \in 1..MaxSockets : SocketDropped(s)
    \/ StaleSocketClosed
    \/ LeaveDirect
    \/ ToggleRecording
    \/ \E c \in calls, ok \in BOOLEAN : GumDone(c, ok)
    \/ \E s \in 1..MaxSockets, m \in Inbound : DsMessage(s, m)
    \/ \E nonEmpty \in BOOLEAN : DsFrame(nonEmpty)
    \/ \E n \in 1..MaxFrames : DsReadDone(n)

SpecDirect == DirectHookInit /\ [][DirectNext]_vars

\* C11: the audio frames are sent on the socket in the order the capture
\* callback produced them, in both pipelines (raw PCM frames and recorder
\* chunks): no later-produced frame is sent before an earlier-produced one.
C11_FramesInOrder ==
    \A i, j \in 1..Len(direct.sent) : i < j => direct.sent[i] < direct.sent[j]

\* The transcript messages of C12: they carry text, isFinal and latency_ms.
TranscriptMessages == {Hello, Partial, Typeless}

\* C12: every well-formed transcript message received on the socket appends
\* exactly one trailing entry to the TranscriptLog, carrying the message's
\* text, isFinal and latency_ms, with no deduplication and with every earlier
\* entry unchanged.
C12_MessageAppendsEntry ==
    [][ \A s \in 1..MaxSockets, m \in TranscriptMessages :
          DsMessage(s, m) =>
             /\ Len(direct'.transcripts) = Len(direct.transcripts) + 1
             /\ SubSeq(direct'.transcripts, 1, Len(direct.transcripts)) = direct.transcripts
             /\ "latency" \in DOMAIN direct'.transcripts[Len(direct'.transcripts)]
             /\ direct'.transcripts[Len(direct'.transcripts)].text = m.text
             /\ direct'.transcripts[Len(direct'.transcripts)].isFinal = m.isFinal
             /\ direct'.transcripts[Len(direct'.transcripts)].latency = m.latency_ms ]_vars

LiveTracks == {st \in 1..MaxStreams : streams[st] = "live"}

\* C13: a capture cycle that is toggled off leaves no live hardware track
\* (the cycle's stream is stopped; if it held the only live track the count
\* is zero); a toggle-on that follows starts a new cycle on a newly acquired
\* stream; and none of these steps changes the TranscriptLog.
C13_CaptureCycle ==
    [][ /\ (ToggleRecording /\ direct.isRecording) =>
             /\ ~direct'.isRecording
             /\ direct.streamRef # NoStream => streams'[direct.streamRef] # "live"
             /\ Cardinality(LiveTracks) <= 1 => LiveTracks' = {}
             /\ direct'.transcripts = direct.transcripts
        /\ (ToggleRecording /\ ~direct.isRecording) =>
             direct'.transcripts = direct.transcripts
        /\ (\E c \in calls : GumDone(c, TRUE)) =>
             /\ direct'.isRecording
             /\ direct'.streamRef # NoStream
             /\ streams[direct'.streamRef] = "free"
             /\ streams'[direct'.streamRef] = "live"
             /\ direct'.transcripts = direct.transcripts ]_vars

\* C13 happens: the second capture cycle has just started on a live stream,
\* with the entries received before still in the log.
C13_Witness ==
    /\ direct.cycles = 2
    /\ direct.isRecording
    /\ direct.streamRef # NoStream /\ LiveTracks = {direct.streamRef}
    /\ Len(direct.transcripts) >= 1
    /\ last.ended /\ ~last.capErr

\* C14: stopping capture releases the device under every interleaving: once
\* no microphone acquisition is pending, isRecording = false implies that no
\* hardware track acquired by an earlier startRecording is still live.
C14_StopReleasesDevice ==
    ((\A c \in calls : c.pc # "gum") /\ ~direct.isRecording) => LiveTracks = {}

\* The socket wsRef holds was closed by the other side or failed.
SocketGone == direct.wsRef # NoSocket /\ sockets[direct.wsRef].st = "closed"

\* C15: when the socket closes unexpectedly while capture is active or is
\* being started, capture is force-stopped and the microphone released: in no
\* state is the socket closed, no acquisition pending, and a hardware track
\* of the hook still live or isRecording still true.
C15_DropStopsCapture ==
    ~ /\ SocketGone
      /\ \A c \in calls : c.pc # "gum"
      /\ \/ direct.isRecording
         \/ direct.streamRef # NoStream /\ streams[direct.streamRef] = "live"

C18_FailedToggleKeepsFlag ==
    [][ /\ (ToggleMicrophoneDone(FALSE) \/ \E c \in calls : MicTimerFires(c, FALSE))
             => agent'.micEnabled = agent.micEnabled
        /\ (\E c \in calls : GumDone(c, FALSE))
             => direct'.isRecording = direct.isRecording ]_vars

\* C18 happens: on a connected agent session whose microphone had been
\* switched off, a toggle has just been rejected.
C18_Witness ==
    /\ last.ret = "toggle" /\ last.capErr
    /\ AgentUp /\ agent.room # NoRoom
    /\ ~agent.micEnabled

\* C19: a capture error does not change the connection state: when
\* microphone acquisition or track publication fails, during connect after
\* signaling succeeded or on a later toggle, isConnected and connectionState
\* of both hooks stay what the transport's own events last set.
C19_CaptureErrorKeepsConnection ==
    [][ (\/ \E c \in calls : TrackDone(c, "denied")
         \/ \E c \in calls : TrackDone(c, "unpublished")
         \/ \E c \in calls : MicTimerFires(c, FALSE)
         \/ \E c \in calls : GumDone(c, FALSE)
         \/ ToggleMicrophoneDone(FALSE))
          => /\ agent'.isConnected = agent.isConnected
             /\ agent'.connectionState = agent.connectionState
             /\ direct'.isConnected = direct.isConnected ]_vars

\* C20: disconnect() tears down capture before the transport, in both
\* modes: when it closes the socket or the room, the capture pipeline has been
\* stopped and no microphone track is live any more.
C20_CaptureBeforeTransport ==
    last.ret \in {"leave", "disconnect"} => ~last.liveAtClose

\* ------------------------------------------------ both hooks, inbound messages
\* The hook of the selected mode at its interface, with the messages that
\* reach it.  The frames the capture callback sends (DsFrame, DsReadDone)
\* touch only produced, reading and sent, and are left to SpecDirect.
InboundInit == DirectHookInit \/ RetryInit

InboundNext ==
    \/ mode = "direct" /\ DsConnect
    \/ mode = "direct" /\ \E s \in 1..MaxSockets : DsSocketOpened(s)
    \/ mode = "direct" /\ \E s \in 1..MaxSockets : DsSocketFailed(s)
    \/ mode = "direct" /\ \E s \in 1..MaxSockets : SocketDropped(s)
    \/ mode = "direct" /\ StaleSocketClosed
    \/ mode = "direct" /\ LeaveDirect
    \/ mode = "direct" /\ ToggleRecording
    \/ mode = "direct" /\ \E c \in calls, ok \in BOOLEAN : GumDone(c, ok)
    \/ mode = "direct" /\ \E s \in 1..MaxSockets, m \in Inbound : DsMessage(s, m)
    \/ mode = "agent" /\ \E r \in 1..MaxRooms, m \in Inbound : RelayData(r, m)
    \/ mode = "agent" /\ \E r \in 1..MaxRooms, m \in Inbound : WorkerMessage(r, m)
    \/ mode = "agent" /\ HookConnect
    \/ mode = "agent" /\ \E fromRef \in BOOLEAN : RetryTimerFires(fromRef)
    \/ mode = "agent" /\ \E c \in calls, ok \in BOOLEAN : HookConnectDone(c, ok)
    \/ mode = "agent" /\ HookDisconnect
    \/ mode = "agent" /\ \E r \in 1..MaxRooms : RoomDropped(r)

SpecInbound == InboundInit /\ [][InboundNext]_vars

\* C17: an inbound message that fails to parse is dropped and never ends the
\* session: the TranscriptLog, the connection state and the capture state are
\* unchanged by it, and a well-formed transcript message that arrives after
\* it is still appended.
C17_MalformedDropped ==
    [][ /\ (\/ \E s \in 1..MaxSockets : DsMessage(s, Garbage)
            \/ \E r \in 1..MaxRooms : RelayData(r, Garbage)
            \/ \E r \in 1..MaxRooms : WorkerMessage(r, Garbage))
             => UNCHANGED <<agent, direct, rooms, sockets, streams, calls, isConnecting>>
        /\ (last.msg = "garbage" /\ \E s \in 1..MaxSockets : DsMessage(s, Hello))
             => direct'.transcripts = Append(direct.transcripts, Entry(Hello))
        /\ (last.msg = "garbage" /\ \E r \in 1..MaxRooms : RelayData(r, Hello))
             => agent'.transcripts = Append(agent.transcripts, [text |-> "hello"]) ]_vars

\* C17 happens: a message that does not parse has just been received by a
\* DirectStream session that is connected, recording and holds a transcript.
C17_Witness ==
    /\ mode = "direct"
    /\ last.msg = "garbage"
    /\ DirectUp /\ direct.isRecording
    /\ Len(direct.transcripts) >= 1

\* ------------------------------------------- the session as its owner sees it
\* The language select of the session page offers en, es, fr and hi; two of
\* them are enough to tell a reset from a kept selection.
Languages == {"en", "es"}

\* The select's onChange: setCurrentLanguage(e.target.value).
SetCurrentLanguage(l) ==
    /\ path = "/session"
    /\ l # currentLanguage
    /\ currentLanguage' = l
    /\ last' = NoReq
    /\ UNCHANGED <<path, mode, isSystemCheckOpen, isSystemChecked, storage, hookVersion,
                   wire, isConnecting, agent, direct, rooms, sockets, streams, looseTracks,
                   calls, preflightSince, modal>>

\* The hook of the selected mode with the messages that reach it, the
\* language select and the microphone toggle of the agent hook.
SessionNext ==
    \/ InboundNext
    \/ \E l \in Languages : SetCurrentLanguage(l)
    \/ mode = "agent" /\ ToggleMicrophone

SpecSession == InboundInit /\ [][SessionNext]_vars

\* C21: after disconnect() completed the mode-scoped state is cleared: the
\* transcript log is empty, the mic-enabled flag is at its initial value and
\* the selected language is reset.
C21_DisconnectClears ==
    last.ret \in {"leave", "disconnect"} =>
        /\ currentLanguage = "en"
        /\ IF mode = "agent"
           THEN agent.transcripts = <<>> /\ agent.micEnabled = AgentInit.micEnabled
           ELSE direct.transcripts = <<>> /\ direct.isRecording = DirectInit.isRecording

\* ------------------------------------------------ App with both hooks mounted
\* The App component that holds view, mode, the gate and both hooks in one
\* component: the hooks stay mounted across views and modes.  path stands
\* for its view ("/" landing, "/session" app).  The preflight is taken by its
\* outcome (onComplete); capture is left to the hooks' own specifications.
AppInit ==
    /\ path = "/"
    /\ mode = "agent"
    /\ isSystemCheckOpen = FALSE
    /\ isSystemChecked \in BOOLEAN
    /\ storage = isSystemChecked
    /\ hookVersion = 2
    /\ currentLanguage = "en"
    /\ wire = WireInit
    /\ isConnecting = FALSE
    /\ agent = AgentInit
    /\ direct = DirectInit
    /\ rooms = [r \in 1..MaxRooms |-> FreeRoom]
    /\ sockets = [s \in 1..MaxSockets |-> FreeSocket]
    /\ streams = [s \in 1..MaxStreams |-> "free"]
    /\ looseTracks = FALSE
    /\ calls = {}
    /\ last = NoReq
    /\ preflightSince = FALSE
    /\ modal = ModalInit

appFixed == <<hookVersion, currentLanguage, wire, isConnecting, streams, looseTracks,
              calls, preflightSince, modal>>

\* handleEnterMode(selectedMode): setMode, setView('app'), gate and modal.
AppHandleEnterMode(sel) ==
    /\ path = "/"
    /\ mode' = sel
    /\ path' = "/session"
    /\ isSystemChecked' = FALSE
    /\ isSystemCheckOpen' = TRUE
    /\ last' = NoReq
    /\ UNCHANGED <<appFixed, storage, agent, direct, rooms, sockets>>

\* onComplete of the modal.
AppOnComplete ==
    /\ isSystemCheckOpen
    /\ storage' = TRUE
    /\ isSystemChecked' = TRUE
    /\ isSystemCheckOpen' = FALSE
    /\ last' = NoReq
    /\ UNCHANGED <<appFixed, path, mode, agent, direct, rooms, sockets>>

\* onClose of the modal.
AppOnClose ==
    /\ isSystemCheckOpen
    /\ isSystemCheckOpen' = FALSE
    /\ last' = NoReq
    /\ UNCHANGED <<appFixed, path, mode, isSystemChecked, storage, agent, direct,
                   rooms, sockets>>

\* handleToggleConnect: the gate, then disconnect() or connect() of the
\* hook of the mode (agent: after fetchToken returned a token).
AppHandleToggleConnect ==
    /\ path = "/session"
    /\ IF ~isSystemChecked THEN GateBlocked
       ELSE IF mode = "agent"
       THEN IF agent.isConnected THEN HookDisconnect ELSE HookConnect
       ELSE IF direct.isConnected THEN LeaveDirect ELSE DsConnect

\* handleBackHome: if (isConnected) await handleToggleConnect(); then
\* setView('landing'); setIsSystemChecked(false).
AppHandleBackHome ==
    /\ path = "/session"
    /\ path' = "/"
    /\ isSystemChecked' = FALSE
    /\ \E conn \in {IF mode = "agent" THEN agent.isConnected ELSE direct.isConnected} :
         /\ isSystemCheckOpen' = (isSystemCheckOpen \/ (conn /\ ~isSystemChecked))
         /\ agent' = IF conn /\ isSystemChecked /\ mode = "agent"
                     THEN AgentDisconnectedV2(agent) ELSE agent
         /\ direct' = IF conn /\ isSystemChecked /\ mode = "direct"
                      THEN DirectDisconnected(direct) ELSE direct
         /\ last' = NoReq
         /\ UNCHANGED <<hookVersion, currentLanguage, wire, isConnecting, looseTracks,
                        calls, preflightSince, modal, mode, storage>>
         /\ streams' = IF conn /\ isSystemChecked /\ mode = "direct"
                       THEN StopTracks(streams, direct.streamRef) ELSE streams
         /\ Collect(IF conn /\ isSystemChecked /\ mode = "agent"
                    THEN RoomDisconnect(rooms, agent.roomRef) ELSE rooms,
                    IF conn /\ isSystemChecked /\ mode = "direct"
                    THEN SocketClose(sockets, direct.wsRef) ELSE sockets)

AppNext ==
    \/ \E sel \in Modes : AppHandleEnterMode(sel)
    \/ AppOnComplete
    \/ AppOnClose
    \/ AppHandleToggleConnect
    \/ AppHandleBackHome
    \/ \E s \in 1..MaxSockets : DsSocketOpened(s)
    \/ \E s \in 1..MaxSockets : DsSocketFailed(s)
    \/ \E s \in 1..MaxSockets : SocketDropped(s)
    \/ \E s \in 1..MaxSockets, m \in {Hello} : DsMessage(s, m)
    \/ \E c \in calls, ok \in BOOLEAN : HookConnectDone(c, ok)
    \/ \E fromRef \in BOOLEAN : RetryTimerFires(fromRef)
    \/ \E r \in 1..MaxRooms : RoomDropped(r)
    \/ \E r \in 1..MaxRooms, m \in {Hello} : RelayData(r, m)

SpecApp == AppInit /\ [][AppNext]_vars

\* The TranscriptLog the page shows: the log of the hook of the mode.
TranscriptLog == IF mode = "agent" THEN agent.transcripts ELSE direct.transcripts

\* C22: the TranscriptLog is empty after every mode switch: what was
\* received in one mode is not in the log observed after switching to the
\* other mode, nor after switching back.
C22_LogEmptyAfterSwitch ==
    [][ mode' # mode => TranscriptLog' = <<>> ]_vars

\* C23: between resets the TranscriptLog is append-only: over any step the
\* earlier log is a prefix of the later one (nothing is removed, reordered or
\* modified in place), and a transcription message that arrives becomes the
\* last entry, so entries stand in arrival order.
C23_AppendOnly ==
    [][ LET IsPrefix(s, t) == Len(s) <= Len(t) /\ SubSeq(t, 1, Len(s)) = s
        IN  /\ IsPrefix(agent.transcripts, agent'.transcripts)
            /\ IsPrefix(direct.transcripts, direct'.transcripts)
            /\ \A m \in {Hello, Partial} :
                 /\ (\E s \in 1..MaxSockets : DsMessage(s, m))
                      => direct'.transcripts = Append(direct.transcripts, Entry(m))
                 /\ (\E r \in 1..MaxRooms : RelayData(r, m))
                      => agent'.transcripts = Append(agent.transcripts, [text |-> m.text])
      ]_vars

\* C23 happens: the agent hook received "hel" and then "hello" and its log
\* holds both, in that order.
C23_Witness ==
    /\ mode = "agent"
    /\ last.msg = "hello"
    /\ agent.transcripts = <<[text |-> "hel"], [text |-> "hello"]>>

\* C24: on every exit path (disconnect, mode switch, leaving or unmounting
\* the session), also one taken while a connect or a microphone acquisition
\* is pending, the capture device is released and the transport is closed:
\* once the session page has been left, or disconnect() has just returned,
\* no hardware track is live and no Room or WebSocket is connecting or open.
C24_ExitReleasesAll ==
    (path = "/" \/ last.ret = "leave") =>
        /\ ~AgentHoldsMic /\ ~DirectHoldsMic
        /\ ActiveRooms = {} /\ ActiveSockets = {}

\* C25: the preflight checks run in the order network reachability
\* (internet), backend reachability (backend), transcription-engine
\* readiness (no such check in the modal), microphone permission (mic), relay
\* configuration (livekit), each going idle -> checking -> ready or error,
\* and a check leaves idle only after every earlier check has reached ready
\* or error.
C25_ChecksInOrder ==
    [][ LET order == <<"internet", "backend", "mic", "livekit">>
        IN  \A i, j \in DOMAIN order :
              (/\ i < j
               /\ modal.checks[order[j]] = "idle"
               /\ modal'.checks[order[j]] # "idle")
                  => modal.checks[order[i]] \in {"success", "error"} ]_vars

\* C26: preflight checks do not run concurrently: at most one run of
\* runChecks is in progress at any time, and so at most one check is in the
\* checking state, also when the modal is closed and reopened or a re-run is
\* requested while an earlier run is still executing.
C26_OneRunAtATime ==
    /\ Cardinality({i \in 1..MaxRuns : modal.runs[i].pc # "none"}) <= 1
    /\ Cardinality({k \in CheckKeys : modal.checks[k] = "running"}) <= 1

\* C27: the check that depends on the backend check (the third check of
\* runChecks) issues no request of its own: if the backend check failed it is
\* forced to error, and if the backend check succeeded it is settled from the
\* health response the backend check received.
C27_DependentCheckDerived ==
    [][ \A i \in 1..MaxRuns :
          PfLivekit(i) =>
            /\ modal'.runs[i].pc = "wait3"
            /\ modal'.checks["livekit"] \in {"success", "error"}
            /\ ~modal.runs[i].backendHealthy => modal'.checks["livekit"] = "error" ]_vars

\* C28: the microphone-permission check releases what it acquires: every
\* track of the stream it obtains is stopped before the check reports ready,
\* so once the check has finished, ready or error, no microphone track is
\* live on behalf of the preflight.
C28_MicCheckReleases ==
    modal.checks["mic"] \in {"success", "error"} =>
        \A st \in 1..MaxStreams : streams[st] # "live"

\* C28 happens: a run ended with the microphone granted (its stream was
\* acquired and the check reports ready).
C28_Witness ==
    /\ modal.checks["mic"] = "success"
    /\ ~modal.isRunning
    /\ \A i \in 1..MaxRuns : modal.runs[i].pc = "none"

\* C29: the relay-configuration check (livekit) is evaluated only in
\* CloudRelay mode ("agent"): in DirectSocket mode ("direct") the step of
\* runChecks that reaches it marks it ready without a request, and it is
\* never in error, so it never makes the aggregate false.
C29_RelayOnlyForCloudRelay ==
    [][ mode = "direct" =>
          /\ \A i \in 1..MaxRuns :
                PfLivekit(i) => /\ modal'.checks["livekit"] = "success"
                                /\ modal'.runs[i].pc = "wait3"
          /\ modal'.checks["livekit"] # "error" ]_vars

\* C30: a preflight that ended with an error is not re-run automatically:
\* when no run is in progress, every check has finished and one of them is
\* in error, a step that starts a run is the retry button or an explicit
\* opening of the check.
C30_NoAutomaticRerun ==
    [][ (/\ \A i \in 1..MaxRuns : modal.runs[i].pc = "none"
         /\ allFinished
         /\ \E k \in CheckKeys : modal.checks[k] = "error"
         /\ \E i \in 1..MaxRuns : modal'.runs[i].pc = "health")
            => PfRetry \/ PfOpen ]_vars

\* ------------------------------------------------ frames and the socket
\* The DirectSocket hook with its capture callback and no inbound messages.
FramesNext ==
    \/ DsConnect
    \/ \E s \in 1..MaxSockets : DsSocketOpened(s)
    \/ \E s \in 1..MaxSockets : SocketDropped(s)
    \/ StaleSocketClosed
    \/ LeaveDirect
    \/ ToggleRecording
    \/ \E c \in calls, ok \in BOOLEAN : GumDone(c, ok)
    \/ \E nonEmpty \in BOOLEAN : DsFrame(nonEmpty)
    \/ \E n \in 1..MaxFrames : DsReadDone(n)

SpecFrames == DirectHookInit /\ [][FramesNext]_vars

\* C31: a frame produced while the socket is not open is dropped and never
\* sent later: a frame is sent at most once, only in a step taken with the
\* socket open and only if the socket was open when it was produced (it is
\* the frame being produced, or one whose encoding was started with the
\* socket open); with the socket not open no frame is sent or kept.
C31_DropWhenNotOpen ==
    [][ LET Sent(d) == {d.sent[k] : k \in 1..Len(d.sent)}
        IN  /\ \A n \in Sent(direct') \ Sent(direct) :
                  /\ WsOpen(direct)
                  /\ n \in direct.reading \/ n = direct.produced + 1
            /\ \A n \in direct'.reading \ direct.reading :
                  WsOpen(direct) /\ n = direct.produced + 1
            /\ \A i, j \in 1..Len(direct'.sent) : i # j => direct'.sent[i] # direct'.sent[j]
            /\ ~WsOpen(direct) =>
                  /\ direct'.sent = direct.sent
                  /\ direct'.reading \subseteq direct.reading ]_vars

\* C31 happens: capture of raw PCM frames went on while the socket was not
\* open, the frame produced then was dropped, and the next frame, produced
\* with a socket open again, was sent.
C31_Witness ==
    /\ hookVersion = 2
    /\ direct.produced = 2
    /\ direct.sent = <<2>>
    /\ direct.reading = {}

\* ------------------------------------------------- the language channel
\* SessionPage with its language select and its effect "Sync language change
\* to hooks", the hook of the selected mode, and the agent worker joining and
\* leaving the LiveKit room.  useDirectStream is the definition that has
\* setLanguage.  React runs a pending effect before it handles the next
\* event, so every other step waits for LanguageSync.
MaxSent == 2

\* The effect's dependencies [currentLanguage, isConnected, mode]; mode does
\* not change while SessionPage is mounted.
SyncDeps ==
    [lang |-> currentLanguage,
     conn |-> IF mode = "agent" THEN agent.isConnected ELSE direct.isConnected]

SyncPending == path = "/session" /\ wire.synced # SyncDeps

\* The last MaxSent set_language messages put on the transport.
Sends(sent, code) ==
    IF Len(sent) < MaxSent THEN Append(sent, code) ELSE Append(Tail(sent), code)

\* agent.setLanguage(code) of the current render: "if (!room) return", then
\* publishData on that room, which rejects if the room is not connected.
AgentSetLanguage(sent, code) ==
    IF agent.room # NoRoom /\ rooms[agent.room].st = "connected"
    THEN Sends(sent, code) ELSE sent

\* direct.setLanguage(code): sends if the socket wsRef holds is open.
DirectSetLanguage(sent, code) ==
    IF WsOpen(direct) THEN Sends(sent, code) ELSE sent

\* The effect body.
SyncLanguage(sent) ==
    IF mode = "agent" /\ agent.isConnected THEN AgentSetLanguage(sent, currentLanguage)
    ELSE IF mode = "direct" /\ direct.isConnected THEN DirectSetLanguage(sent, currentLanguage)
    ELSE sent

LanguageSync ==
    /\ SyncPending
    /\ wire' = [wire EXCEPT !.synced = SyncDeps, !.sent = SyncLanguage(wire.sent)]
    /\ last' = NoReq
    /\ UNCHANGED <<path, mode, isSystemCheckOpen, isSystemChecked, storage, hookVersion,
                   currentLanguage, isConnecting, agent, direct, rooms, sockets, streams,
                   looseTracks, calls, preflightSince, modal>>

\* The rooms whose ParticipantConnected / ParticipantDisconnected events
\* reach checkAgents: every connected room the mounted page built (first
\* definition, handlers registered in connect), or the room in the `room`
\* state (second definition, handlers registered by the effect on [room]).
Watched ==
    IF hookVersion = 1
    THEN {r \in 1..MaxRooms : rooms[r].st = "connected" /\ Live(rooms[r].g)}
    ELSE {r \in 1..MaxRooms : r = agent.room /\ rooms[r].st = "connected"}

\* The agent worker joins or leaves the LiveKit room; checkAgents.
AgentPresence(p) ==
    /\ wire.present # p
    /\ wire' = [wire EXCEPT !.present = p]
    /\ agent' = IF Watched # {} THEN [agent EXCEPT !.agentConnected = p] ELSE agent
    /\ last' = NoReq
    /\ UNCHANGED <<path, mode, isSystemCheckOpen, isSystemChecked, storage, hookVersion,
                   currentLanguage, isConnecting, direct, rooms, sockets, streams,
                   looseTracks, calls, preflightSince, modal>>

LanguageInit ==
    /\ path = "/session"
    /\ mode \in Modes
    /\ isSystemCheckOpen = FALSE
    /\ isSystemChecked = TRUE
    /\ storage = TRUE
    /\ hookVersion \in {1, 2}
    /\ currentLanguage = "en"
    /\ wire = WireInit
    /\ isConnecting = FALSE
    /\ agent = AgentInit
    /\ direct = DirectInit
    /\ rooms = [r \in 1..MaxRooms |-> FreeRoom]
    /\ sockets = [s \in 1..MaxSockets |-> FreeSocket]
    /\ streams = [s \in 1..MaxStreams |-> "free"]
    /\ looseTracks = FALSE
    /\ calls = {}
    /\ last = NoReq
    /\ preflightSince = TRUE
    /\ modal = ModalInit

LanguageNext ==
    \/ LanguageSync
    \/ ~SyncPending /\ \E l \in Languages : SetCurrentLanguage(l)
    \/ ~SyncPending /\ HandleToggleConnect
    \/ ~SyncPending /\ \E c \in calls, tok \in BOOLEAN : FetchTokenDone(c, tok)
    \/ ~SyncPending /\ \E c \in calls, ok \in BOOLEAN : RoomConnectDone(c, ok)
    \/ ~SyncPending /\ \E c \in calls, out \in {"published", "denied"} : TrackDone(c, out)
    \/ ~SyncPending /\ \E c \in calls : SocketOpened(c)
    \/ ~SyncPending /\ \E c \in calls : SocketFailed(c)
    \/ ~SyncPending /\ \E r \in 1..MaxRooms : RoomDropped(r)
    \/ ~SyncPending /\ \E s \in 1..MaxSockets : SocketDropped(s)
    \/ ~SyncPending /\ StaleSocketClosed
    \/ ~SyncPending /\ mode = "agent" /\ \E p \in BOOLEAN : AgentPresence(p)

SpecLanguage == LanguageInit /\ [][LanguageNext]_vars

\* C32: CloudRelay sends a set_language message only in states where the
\* local connection is Connected and a remote agent has been detected: no
\* set_language is published while agentConnected is false.
C32_LanguageOnlyWithAgent ==
    [][ (mode = "agent" /\ wire'.sent # wire.sent) =>
            /\ agent.isConnected /\ agent.connectionState = "connected"
            /\ agent.agentConnected ]_vars

\* React runs the pending effect; nothing else is owed by anyone.
SpecLanguageFair == SpecLanguage /\ WF_vars(LanguageSync)

\* The transport is ready: CloudRelay connected with the agent detected,
\* DirectSocket with its socket open.
TransportReady ==
    IF mode = "agent" THEN agent.isConnected /\ agent.agentConnected ELSE WsOpen(direct)

\* C33: a language selected while the transport is not ready is not lost:
\* once the transport is ready, a set_language message carrying the current
\* language is eventually the latest one sent (or the transport stops being
\* ready), with no further language change needed.
C33_LanguageBuffered ==
    TransportReady ~>
        (\/ ~TransportReady
         \/ Len(wire.sent) > 0 /\ wire.sent[Len(wire.sent)] = currentLanguage)

\* A smart-start sequence (handleToggleMic that began by connecting) is in
\* progress.
SmartStart == \E c \in calls : c.kind = "mic"

\* C34: the mic-enabled flag (micEnabled in CloudRelay, isRecording in
\* DirectSocket) changes only while the connection state is Connected or
\* inside a smart-start sequence: while the page stays mounted, a step taken
\* with the transport disconnected, failed or reconnecting and no smart
\* start in progress leaves the flag unchanged.
C34_FlagOnlyWhileConnected ==
    [][ (path = "/session" /\ path' = "/session" /\ ~SmartStart) =>
          /\ agent'.micEnabled # agent.micEnabled => agent.connectionState = "connected"
          /\ direct'.isRecording # direct.isRecording => direct.isConnected ]_vars

\* The connection state the hook of the selected mode exposes:
\* connectionState of useLiveKit; useDirectStream has isConnected only.
ConnState ==
    IF mode = "agent" THEN agent.connectionState
    ELSE IF direct.isConnected THEN "connected" ELSE "disconnected"

\* A connect of the selected mode is under way (its Room or WebSocket is
\* connecting).
Connecting ==
    IF mode = "agent" THEN \E r \in 1..MaxRooms : rooms[r].st = "connecting"
    ELSE \E k \in 1..MaxSockets : sockets[k].st = "connecting"

\* C35: the connection state changes only along the shared state machine:
\* Connected is entered only from Connecting or Reconnecting; Reconnecting is
\* entered only from Connected and only in CloudRelay; and Connected ->
\* Disconnected happens only in a step that is an explicit disconnect().
C35_StateMachine ==
    [][ /\ (ConnState # "connected" /\ ConnState' = "connected") =>
              (Connecting \/ ConnState = "reconnecting")
        /\ (ConnState # "reconnecting" /\ ConnState' = "reconnecting") =>
              (ConnState = "connected" /\ mode = "agent")
        /\ (ConnState = "connected" /\ ConnState' = "disconnected") =>
              last'.ret \in {"leave", "disconnect"} ]_vars

\* C36: in DirectSocket isConnected is true exactly when wsRef holds a
\* socket and that socket is open: an event of a socket that is no longer
\* the current one neither sets isConnected false or stops capture while the
\* current socket is open, nor sets isConnected true while it is not.
C36_ConnectedIffCurrentOpen ==
    direct.isConnected <=> WsOpen(direct)

RequestNext ==
    \/ HandleToggleConnect
    \/ HandleToggleMic
    \/ \E c \in calls, tok \in BOOLEAN : FetchTokenDone(c, tok)
    \/ \E c \in calls, ok \in BOOLEAN : RoomConnectDone(c, ok)
    \/ \E c \in calls, out \in {"published", "denied", "unpublished"} : TrackDone(c, out)
    \/ \E c \in calls, ok \in BOOLEAN : MicTimerFires(c, ok)
    \/ \E c \in calls : SocketOpened(c)
    \/ \E c \in calls : SocketFailed(c)
    \/ \E c \in calls, ok \in BOOLEAN : GumDone(c, ok)
    \/ \E r \in 1..MaxRooms : RoomDropped(r)
    \/ \E s \in 1..MaxSockets : SocketDropped(s)
    \/ StaleSocketClosed

SpecRequest ==
    /\ LanguageInit
    /\ [][RequestNext]_vars
    /\ WF_vars(\E c \in calls, tok \in BOOLEAN : FetchTokenDone(c, tok))
    /\ WF_vars(\E c \in calls, ok \in BOOLEAN : RoomConnectDone(c, ok))
    /\ WF_vars(\E c \in calls, out \in {"published", "denied", "unpublished"} : TrackDone(c, out))
    /\ WF_vars(\E c \in calls, ok \in BOOLEAN : MicTimerFires(c, ok))
    /\ WF_vars(\E c \in calls : SocketOpened(c) \/ SocketFailed(c))
    /\ WF_vars(\E c \in calls, ok \in BOOLEAN : GumDone(c, ok))

\* The connect requests of the mounted page that have not returned yet.
ConnectsInProgress ==
    {c \in calls : Live(c.g) /\ c.pc \in {"fetch", "lkconnect", "lktrack", "dconnect"}}

====
